---- MODULE Spec2Model ----
(***************************************************************************)
(* Model of the notebook "Fitting long periods in TESS": the hand-written  *)
(* helper vstack and the array steps of the notebook's cells (cadence      *)
(* filter, aperture growth, background design matrices, split at the data  *)
(* downlink, spline-column pruning, flux-error fix).                       *)
(*                                                                         *)
(* Conventions.  A matrix is a record [shape |-> <<rows, cols>>, X |-> f]  *)
(* with f a function on (1..rows) \X (1..cols).  Times are in tenths of a  *)
(* day.  Entries of a background matrix that come out of the PCA are       *)
(* provenance tokens Label(sector, cadence, component), all different and  *)
(* different from 0 (padding) and 1 (the constant column): the notebook    *)
(* only copies these values, so where a token ends up is what matters.     *)
(***************************************************************************)
EXTENDS Integers, Sequences, FiniteSets, TLC

VARIABLES
    pc,              \* the cell the notebook has executed last
    tpfs,            \* downloaded pixel files: one sequence of cadences per sector
    tpfs_uncorr,     \* pixel files with the background added back, then filtered
    lc,              \* the stitched light curve: one entry per cadence
    bkgs,            \* per-sector background design matrices
    splits,          \* per-sector row indices handed to DesignMatrix.split
    systematics_dm,  \* vstack(bkgs)
    pipeline_mask,   \* tpf.pipeline_mask of one pixel file
    bigger_aper,     \* the enlarged aperture of that pixel file
    spline_dm,       \* star_dm as create_spline_matrix returns it
    star_dm,         \* star_dm after the empty columns are removed
    flux_err_in,     \* lc.flux_err before the fix
    flux_err         \* lc.flux_err

vars == <<pc, tpfs, tpfs_uncorr, lc, bkgs, splits, systematics_dm,
          pipeline_mask, bigger_aper, spline_dm, star_dm, flux_err_in, flux_err>>

pipelineVars == <<tpfs, tpfs_uncorr, lc, bkgs, splits, systematics_dm>>
aperVars == <<pipeline_mask, bigger_aper>>
splineVars == <<spline_dm, star_dm>>
errVars == <<flux_err_in, flux_err>>

\* Bounds of the model.
MaxDms == 2
MaxRows == 2
MaxCols == 2
MaxSectors == 2
MaxCadences == 4
MaxTimes == 5
MaxMaskDim == 3
MaxSplineRows == 2
MaxSplineCols == 3
MaxErrs == 4

\* bkg_dm.pca(3)
NTerms == 3
\* np.diff(tpf.time) > 0.3, in tenths of a day
GapThreshold == 3

None == [shape |-> <<0, 0>>, X |-> <<>>, prior_mu |-> <<>>, prior_sigma |-> <<>>,
         name |-> "none"]

Label(k, r, c) == (k * 10 + r) * 10 + c

RECURSIVE SumSeq(_)
SumSeq(s) == IF s = <<>> THEN 0 ELSE Head(s) + SumSeq(Tail(s))

zeros(n, m) == [ij \in (1..n) \X (1..m) |-> 0]

DesignMatrix(n, m, X, name, prior_mu, prior_sigma) ==
    [shape |-> <<n, m>>, X |-> X, prior_mu |-> prior_mu,
     prior_sigma |-> prior_sigma, name |-> name]

(***************************************************************************)
(* vstack                                                                  *)
(***************************************************************************)
npoints(dms) == SumSeq([k \in 1..Len(dms) |-> dms[k].shape[1]])

ncomps_max(dms) ==
    CHOOSE m \in {dms[k].shape[2] : k \in 1..Len(dms)} :
        \A k \in 1..Len(dms) : dms[k].shape[2] <= m

ncomps(dms) == SumSeq([k \in 1..Len(dms) |-> dms[k].shape[2]])

\* X[idx:idx+dm.shape[0], jdx:jdx+dm.shape[1]] = dm.X
AssignBlock(X, idx, jdx, dm) ==
    [ij \in DOMAIN X |->
        IF /\ ij[1] \in (idx + 1)..(idx + dm.shape[1])
           /\ ij[2] \in (jdx + 1)..(jdx + dm.shape[2])
        THEN dm.X[<<ij[1] - idx, ij[2] - jdx>>]
        ELSE X[ij]]

NextIdx(idx, dm) == idx + dm.shape[1]

NextJdx_same(jdx, dm) == jdx

NextJdx(jdx, dm) == jdx + dm.shape[2]

\* for dm in dms: ...
RECURSIVE FillBlocks(_, _, _, _)
FillBlocks(X, idx, jdx, dms) ==
    IF dms = <<>> THEN X
    ELSE FillBlocks(AssignBlock(X, idx, jdx, Head(dms)),
                    NextIdx(idx, Head(dms)), NextJdx(jdx, Head(dms)), Tail(dms))

RECURSIVE hstack_rev(_)
hstack_rev(vs) == IF vs = <<>> THEN <<>> ELSE hstack_rev(Tail(vs)) \o Head(vs)

RECURSIVE hstack(_)
hstack(vs) == IF vs = <<>> THEN <<>> ELSE Head(vs) \o hstack(Tail(vs))

vstack(dms) ==
    LET n == npoints(dms)
        m == ncomps(dms)
        X == FillBlocks(zeros(n, m), 0, 0, dms)
        prior_mu == hstack([k \in 1..Len(dms) |-> dms[k].prior_mu])
        prior_sigma == hstack([k \in 1..Len(dms) |-> dms[k].prior_sigma])
    IN  DesignMatrix(n, m, X, dms[1].name, prior_mu, prior_sigma)

\* systematics_dm = vstack(bkgs)
Vstack ==
    /\ pc = "split"
    /\ systematics_dm' = vstack(bkgs)
    /\ pc' = "stacked"
    /\ UNCHANGED <<tpfs, tpfs_uncorr, lc, bkgs, splits>>
    /\ UNCHANGED <<aperVars, splineVars, errVars>>

(***************************************************************************)
(* Specification of vstack on its own: any non-empty list of design        *)
(* matrices, of any shapes, each column with the default prior (mean 0,    *)
(* infinite width) or the offset prior (mean 1, width 0.1).                *)
(***************************************************************************)
PriorChoices == {<<0, "inf">>, <<1, "0.1">>}

AnyDm(k, r, c, p) ==
    DesignMatrix(r, c, [ij \in (1..r) \X (1..c) |-> Label(k, ij[1], ij[2])], "bkg",
                 [j \in 1..c |-> p[j][1]], [j \in 1..c |-> p[j][2]])

\* The shapes and priors a design matrix may have: <<rows, columns, priors>>.
DmChoices ==
    UNION {{<<rc[1], rc[2], p>> : p \in [1..rc[2] -> PriorChoices]} :
           rc \in (1..MaxRows) \X (1..MaxCols)}

NoPipeline ==
    /\ tpfs = <<>> /\ tpfs_uncorr = <<>> /\ lc = <<>>
    /\ bkgs = <<>> /\ splits = <<>> /\ systematics_dm = None

NoAper ==
    /\ pipeline_mask = [shape |-> <<0, 0>>, X |-> <<>>]
    /\ bigger_aper = [shape |-> <<0, 0>>, X |-> <<>>]
NoSpline == spline_dm = None /\ star_dm = None
NoErr == flux_err_in = <<>> /\ flux_err = <<>>

InitVstack ==
    /\ pc = "split"
    /\ \E n \in 1..MaxDms :
         \E d \in [1..n -> DmChoices] :
            bkgs = [k \in 1..n |-> AnyDm(k, d[k][1], d[k][2], d[k][3])]
    /\ tpfs = <<>> /\ tpfs_uncorr = <<>> /\ lc = <<>> /\ splits = <<>>
    /\ systematics_dm = None
    /\ NoAper /\ NoSpline /\ NoErr

NextVstack == Vstack

SpecVstack == InitVstack /\ [][NextVstack]_vars

\* Offsets of the k-th input, stated from the inputs alone.
RowsBefore(dms, k) == SumSeq([i \in 1..(k - 1) |-> dms[i].shape[1]])
ColsBefore(dms, k) == SumSeq([i \in 1..(k - 1) |-> dms[i].shape[2]])

\* C1: the matrix vstack returns has as many rows as all inputs together and
\* as many columns as all inputs together.
C1_Shape ==
    pc = "stacked" =>
        /\ systematics_dm.shape = <<RowsBefore(bkgs, Len(bkgs) + 1),
                                    ColsBefore(bkgs, Len(bkgs) + 1)>>
        /\ DOMAIN systematics_dm.X =
             (1..RowsBefore(bkgs, Len(bkgs) + 1)) \X (1..ColsBefore(bkgs, Len(bkgs) + 1))

C1_Witness ==
    /\ pc = "stacked"
    /\ Len(bkgs) = 2
    /\ bkgs[1].shape # bkgs[2].shape
    /\ systematics_dm.shape = <<3, 3>>

InBlock(dms, k, ij) ==
    /\ ij[1] \in (RowsBefore(dms, k) + 1)..RowsBefore(dms, k + 1)
    /\ ij[2] \in (ColsBefore(dms, k) + 1)..ColsBefore(dms, k + 1)

\* C2: the result is the block-diagonal arrangement of the inputs in list
\* order: the k-th input sits at row offset R_k and column offset C_k, and every
\* entry outside all blocks is 0.
C2_BlockDiagonal ==
    pc = "stacked" =>
        /\ \A k \in 1..Len(bkgs) :
             \A rc \in DOMAIN bkgs[k].X :
                LET ij == <<RowsBefore(bkgs, k) + rc[1], ColsBefore(bkgs, k) + rc[2]>>
                IN  /\ ij \in DOMAIN systematics_dm.X
                    /\ systematics_dm.X[ij] = bkgs[k].X[rc]
        /\ \A ij \in DOMAIN systematics_dm.X :
             (\A k \in 1..Len(bkgs) : ~InBlock(bkgs, k, ij)) => systematics_dm.X[ij] = 0

C2_Witness ==
    /\ pc = "stacked"
    /\ Len(bkgs) = 2
    /\ bkgs[1].shape = <<2, 1>>
    /\ bkgs[2].shape = <<1, 2>>
    /\ systematics_dm.X[<<3, 2>>] = Label(2, 1, 1)
    /\ systematics_dm.X[<<3, 1>>] = 0
    /\ systematics_dm.X[<<1, 2>>] = 0

\* C3: prior_mu and prior_sigma of the result are the inputs' vectors
\* concatenated in list order, one entry per output column, the entry of
\* output column C_k + c being the k-th input's entry for its column c.
C3_Priors ==
    pc = "stacked" =>
        /\ Len(systematics_dm.prior_mu) = systematics_dm.shape[2]
        /\ Len(systematics_dm.prior_sigma) = systematics_dm.shape[2]
        /\ \A k \in 1..Len(bkgs) :
             \A c \in 1..bkgs[k].shape[2] :
                /\ ColsBefore(bkgs, k) + c \in DOMAIN systematics_dm.prior_mu
                /\ ColsBefore(bkgs, k) + c \in DOMAIN systematics_dm.prior_sigma
                /\ systematics_dm.prior_mu[ColsBefore(bkgs, k) + c] = bkgs[k].prior_mu[c]
                /\ systematics_dm.prior_sigma[ColsBefore(bkgs, k) + c]
                     = bkgs[k].prior_sigma[c]

C3_Witness ==
    /\ pc = "stacked"
    /\ Len(bkgs) = 2
    /\ bkgs[1].prior_mu = <<0, 1>>
    /\ bkgs[2].prior_mu = <<1>>
    /\ systematics_dm.prior_mu = <<0, 1, 1>>
    /\ systematics_dm.prior_sigma = <<"inf", "0.1", "0.1">>

(***************************************************************************)
(* The notebook's cells from the download to systematics_dm.                *)
(* A cadence of a pixel file is [cadenceno, time, finite]: its number in    *)
(* the downloaded file, its time stamp, and whether the sum of its pixel    *)
(* fluxes is finite.                                                        *)
(***************************************************************************)

\* tpfs_uncorr = [(tpf + np.nan_to_num(tpf.flux_bkg)) for tpf in tpfs]
\* nan_to_num makes the added term finite: a cadence's flux sum stays finite
\* or stays non-finite.
AddBackground ==
    /\ pc = "downloaded"
    /\ tpfs_uncorr' = [k \in 1..Len(tpfs) |-> tpfs[k]]
    /\ pc' = "uncorr"
    /\ UNCHANGED <<tpfs, lc, bkgs, splits, systematics_dm>>
    /\ UNCHANGED <<aperVars, splineVars, errVars>>

\* tpf[np.isfinite(tpf.flux.sum(axis=(1, 2)))]
FiniteCadences(tpf) == SelectSeq(tpf, LAMBDA c : c.finite)

FilterNonFinite ==
    /\ pc = "uncorr"
    /\ tpfs_uncorr' = [k \in 1..Len(tpfs_uncorr) |-> FiniteCadences(tpfs_uncorr[k])]
    /\ pc' = "filtered"
    /\ UNCHANGED <<tpfs, lc, bkgs, splits, systematics_dm>>
    /\ UNCHANGED <<aperVars, splineVars, errVars>>

\* tpf.to_lightcurve(aperture_mask=aper): one flux per cadence of the file
to_lightcurve(k, tpf) ==
    [i \in 1..Len(tpf) |->
        [sector |-> k, cadenceno |-> tpf[i].cadenceno, time |-> tpf[i].time]]

\* lk.LightCurveCollection([...]).stitch(): the sectors' light curves appended
Stitch ==
    /\ pc = "filtered"
    /\ lc' = hstack([k \in 1..Len(tpfs_uncorr) |-> to_lightcurve(k, tpfs_uncorr[k])])
    /\ pc' = "stitched"
    /\ UNCHANGED <<tpfs, tpfs_uncorr, bkgs, splits, systematics_dm>>
    /\ UNCHANGED <<aperVars, splineVars, errVars>>

BkgPixels_raw(k) == tpfs[k]

\* for tpf, aper in zip(tpfs_uncorr, bigger_apers): pixels = tpf.flux[:, ~aper]
BkgPixels(k) == tpfs_uncorr[k]

\* lk.DesignMatrix(pixels, name='bkg').pca(n): one row per cadence of the
\* file, in the file's order, n components; default priors (0, inf).
pca(k, pixels, n) ==
    DesignMatrix(Len(pixels), n,
                 [ij \in (1..Len(pixels)) \X (1..n) |->
                     Label(k, pixels[ij[1]].cadenceno, ij[2])],
                 "bkg", [j \in 1..n |-> 0], [j \in 1..n |-> "inf"])

append_constant_none(dm) == dm

\* bkg_dm.append_constant(): one more column, of ones, with the default prior
append_constant(dm) ==
    DesignMatrix(dm.shape[1], dm.shape[2] + 1,
                 [ij \in (1..dm.shape[1]) \X (1..(dm.shape[2] + 1)) |->
                     IF ij[2] <= dm.shape[2] THEN dm.X[ij] ELSE 1],
                 dm.name, Append(dm.prior_mu, 0), Append(dm.prior_sigma, "inf"))

BuildBkgs ==
    /\ pc = "stitched"
    /\ bkgs' = [k \in 1..Len(tpfs_uncorr) |->
                   append_constant(pca(k, BkgPixels(k), NTerms))]
    /\ pc' = "bkgs"
    /\ UNCHANGED <<tpfs, tpfs_uncorr, lc, splits, systematics_dm>>
    /\ UNCHANGED <<aperVars, splineVars, errVars>>

\* bkg.prior_mu[-1] = 1; bkg.prior_sigma[-1] = 0.1
SetLast(v, x) == [j \in 1..Len(v) |-> IF j = Len(v) THEN x ELSE v[j]]

SetPriors ==
    /\ pc = "bkgs"
    /\ bkgs' = [k \in 1..Len(bkgs) |->
                   [bkgs[k] EXCEPT !.prior_mu = SetLast(@, 1),
                                   !.prior_sigma = SetLast(@, "0.1")]]
    /\ pc' = "priors"
    /\ UNCHANGED <<tpfs, tpfs_uncorr, lc, splits, systematics_dm>>
    /\ UNCHANGED <<aperVars, splineVars, errVars>>

\* np.diff(t)
diff(t) == [i \in 1..(Len(t) - 1) |-> t[i + 1] - t[i]]

\* np.where(b)[0]: the 0-based indices at which b is true, ascending
RECURSIVE WhereFrom(_, _)
WhereFrom(b, i) ==
    IF i > Len(b) THEN <<>>
    ELSE (IF b[i] THEN <<i - 1>> ELSE <<>>) \o WhereFrom(b, i + 1)

where(b) == WhereFrom(b, 1)

IsGap_ge(d) == d >= GapThreshold

\* np.diff(tpf.time) > 0.3
IsGap(d) == d > GapThreshold

\* list(np.where(np.diff(tpf.time) > 0.3)[0] + 1)
SplitPoints(t) ==
    LET d == diff(t)
        w == where([i \in 1..Len(d) |-> IsGap(d[i])])
    IN  [i \in 1..Len(w) |-> w[i] + 1]

\* DesignMatrix.split(row_indices): the matrix itself for an empty list;
\* otherwise one copy of the columns (and of the priors) per segment of rows
\* [lower, upper), each copy zero outside its segment.
split(dm, row_indices) ==
    IF Len(row_indices) = 0 \/ row_indices = <<0>> THEN dm
    ELSE LET lower == <<0>> \o row_indices
             upper == row_indices \o <<dm.shape[1]>>
             nseg == Len(lower)
             c == dm.shape[2]
             X == [ij \in (1..dm.shape[1]) \X (1..(nseg * c)) |->
                     LET s == ((ij[2] - 1) \div c) + 1
                     IN  IF ij[1] > lower[s] /\ ij[1] <= upper[s]
                         THEN dm.X[<<ij[1], ((ij[2] - 1) % c) + 1>>]
                         ELSE 0]
         IN  DesignMatrix(dm.shape[1], nseg * c, X, dm.name,
                          hstack([s \in 1..nseg |-> dm.prior_mu]),
                          hstack([s \in 1..nseg |-> dm.prior_sigma]))

Times(tpf) == [i \in 1..Len(tpf) |-> tpf[i].time]

\* bkgs = [bkg.split(list(...)) for bkg, tpf in zip(bkgs, tpfs_uncorr)]
SplitAtDownlink ==
    /\ pc = "priors"
    /\ splits' = [k \in 1..Len(bkgs) |-> SplitPoints(Times(tpfs_uncorr[k]))]
    /\ bkgs' = [k \in 1..Len(bkgs) |-> split(bkgs[k], splits'[k])]
    /\ pc' = "split"
    /\ UNCHANGED <<tpfs, tpfs_uncorr, lc, systematics_dm>>
    /\ UNCHANGED <<aperVars, splineVars, errVars>>

Next ==
    \/ AddBackground
    \/ FilterNonFinite
    \/ Stitch
    \/ BuildBkgs
    \/ SetPriors
    \/ SplitAtDownlink
    \/ Vstack

StartPipeline ==
    /\ pc = "downloaded"
    /\ tpfs_uncorr = <<>> /\ lc = <<>> /\ bkgs = <<>> /\ splits = <<>>
    /\ systematics_dm = None
    /\ NoAper /\ NoSpline /\ NoErr

\* pca(NTerms) extracts NTerms components from a sector that keeps at least
\* NTerms cadences (and background pixels).
EnoughCadences(n, fin) == Cardinality({c \in 1..n : fin[c]}) >= NTerms

\* One sector observed at a steady cadence of 0.2 days: a gap appears where
\* the filter removes a cadence.
SteadySector(n, fin) ==
    [c \in 1..n |-> [cadenceno |-> c, time |-> 2 * c, finite |-> fin[c]]]

SteadySectors ==
    UNION {{SteadySector(n, fin) :
               fin \in {f \in [1..n -> BOOLEAN] : EnoughCadences(n, f)}} :
           n \in NTerms..MaxCadences}

\* sr.download_all(): any list of sectors
Init ==
    /\ tpfs \in UNION {[1..s -> SteadySectors] : s \in 1..MaxSectors}
    /\ StartPipeline

Spec == Init /\ [][Next]_vars

\* One sector whose successive time stamps are 0.1, 0.3 or 0.4 days apart.
Deltas == {1, 3, 4}

GapSector(n, d, fin) ==
    [c \in 1..n |-> [cadenceno |-> c,
                     time |-> SumSeq([i \in 1..(c - 1) |-> d[i]]),
                     finite |-> fin[c]]]

GapSectors(n) ==
    {GapSector(n, df[1], df[2]) :
        df \in [1..(n - 1) -> Deltas]
                 \X {f \in [1..n -> BOOLEAN] : EnoughCadences(n, f)}}

InitSector ==
    /\ \E n \in NTerms..MaxTimes : \E s \in GapSectors(n) : tpfs = <<s>>
    /\ StartPipeline

SpecSector == InitSector /\ [][Next]_vars

(***************************************************************************)
(* Claims about the split at the data downlink (SpecSector).               *)
(***************************************************************************)
Split == pc \in {"split", "stacked"}

\* The 0-based indices j, 1 <= j < N, whose time stamp is more than 0.3 days
\* after the one before.
GapIndices(t) == {j \in 1..(Len(t) - 1) : t[j + 1] - t[j] > 3}

\* C6: the split points of a sector are exactly the indices j, 1 <= j < N,
\* with time[j] - time[j-1] > 0.3, in ascending order; no gap longer than 0.3
\* days gives the empty list, and a gap of exactly 0.3 days is no split point.
C6_SplitPoints ==
    Split =>
        \A k \in 1..Len(splits) :
            LET t == Times(tpfs_uncorr[k])
                sp == splits[k]
            IN  /\ {sp[i] : i \in 1..Len(sp)} = GapIndices(t)
                /\ \A i \in 1..(Len(sp) - 1) : sp[i] < sp[i + 1]
                /\ (\A j \in 1..(Len(t) - 1) : t[j + 1] - t[j] <= 3) => sp = <<>>

C6_Witness ==
    /\ pc = "split"
    /\ Times(tpfs_uncorr[1]) = <<0, 3, 7, 8>>
    /\ splits[1] = <<2>>
    /\ bkgs[1].shape = <<4, 8>>

IsToken(v) == v # 0 /\ v # 1
TokenSector(v) == v \div 100
TokenCadence(v) == (v \div 10) % 10

Retained(tpf) == {c \in 1..Len(tpf) : tpf[c].finite}

\* C9: systematics_dm has one row per cadence of lc, in the same order: as
\* many rows as cadences retained by the filter over all sectors, and row i
\* holds background regressors of the sector and cadence that lc[i] came from,
\* and of no other.
C9_RowsMatchCadences ==
    pc = "stacked" =>
        /\ systematics_dm.shape[1] = Len(lc)
        /\ Len(lc) = SumSeq([k \in 1..Len(tpfs) |-> Cardinality(Retained(tpfs[k]))])
        /\ \A i \in 1..Len(lc) :
             /\ \E j \in 1..systematics_dm.shape[2] :
                  systematics_dm.X[<<i, j>>] = Label(lc[i].sector, lc[i].cadenceno, 1)
             /\ \A j \in 1..systematics_dm.shape[2] :
                  IsToken(systematics_dm.X[<<i, j>>]) =>
                     /\ TokenSector(systematics_dm.X[<<i, j>>]) = lc[i].sector
                     /\ TokenCadence(systematics_dm.X[<<i, j>>]) = lc[i].cadenceno

C9_Witness ==
    /\ pc = "stacked"
    /\ Len(tpfs) = 2
    /\ Len(tpfs[1]) = 4 /\ ~tpfs[1][2].finite
    /\ Len(tpfs[2]) = 3
    /\ Len(lc) = 6
    /\ lc[2].cadenceno = 3
    /\ lc[4].sector = 2
    /\ systematics_dm.shape = <<6, 12>>

(***************************************************************************)
(* The enlarged aperture of one pixel file (SpecAper).                     *)
(***************************************************************************)
NoMask == [shape |-> <<0, 0>>, X |-> <<>>]

\* pipeline_mask.astype(int)
astype_int(b) == IF b THEN 1 ELSE 0

\* np.gradient along one axis, in halves: the central difference
\* (f[p+1] - f[p-1]) / 2 inside, the one-sided difference f[2] - f[1] or
\* f[n] - f[n-1] at the two ends.
gradient2(mask, axis, ij) ==
    LET n == mask.shape[axis]
        p == ij[axis]
        f(q) == astype_int(mask.X[IF axis = 1 THEN <<q, ij[2]>> ELSE <<ij[1], q>>])
    IN  IF p = 1 THEN 2 * (f(2) - f(1))
        ELSE IF p = n THEN 2 * (f(n) - f(n - 1))
        ELSE f(p + 1) - f(p - 1)

GrowAperture_gradient_only(mask) ==
    [shape |-> mask.shape,
     X |-> [ij \in DOMAIN mask.X |->
              gradient2(mask, 1, ij) # 0 \/ gradient2(mask, 2, ij) # 0]]

\* (np.asarray(np.gradient(mask.astype(int))) != 0).any(axis=0) | mask
GrowAperture(mask) ==
    [shape |-> mask.shape,
     X |-> [ij \in DOMAIN mask.X |->
              (gradient2(mask, 1, ij) # 0 \/ gradient2(mask, 2, ij) # 0) \/ mask.X[ij]]]

\* np.gradient needs at least 2 elements along every axis
GradientDefined(mask) == mask.shape[1] >= 2 /\ mask.shape[2] >= 2

EnlargeAperture ==
    /\ pc = "masked"
    /\ GradientDefined(pipeline_mask)
    /\ bigger_aper' = GrowAperture(pipeline_mask)
    /\ pc' = "enlarged"
    /\ UNCHANGED <<pipeline_mask, pipelineVars, splineVars, errVars>>

\* np.gradient raises ValueError on an axis of length 1
EnlargeApertureFails ==
    /\ pc = "masked"
    /\ ~GradientDefined(pipeline_mask)
    /\ pc' = "ValueError"
    /\ UNCHANGED <<aperVars, pipelineVars, splineVars, errVars>>

Masks(n, m) == {[shape |-> <<n, m>>, X |-> x] : x \in [(1..n) \X (1..m) -> BOOLEAN]}

InitAper ==
    /\ pc = "masked"
    /\ \E n \in 1..MaxMaskDim : \E m \in 1..MaxMaskDim : pipeline_mask \in Masks(n, m)
    /\ bigger_aper = NoMask
    /\ NoPipeline /\ NoSpline /\ NoErr

NextAper == EnlargeAperture \/ EnlargeApertureFails

SpecAper == InitAper /\ [][NextAper]_vars

Adjacent(ij, pq) ==
    \/ ij[1] = pq[1] /\ (ij[2] = pq[2] + 1 \/ ij[2] = pq[2] - 1)
    \/ ij[2] = pq[2] /\ (ij[1] = pq[1] + 1 \/ ij[1] = pq[1] - 1)

NextToMask(ij) ==
    \E pq \in DOMAIN pipeline_mask.X : pipeline_mask.X[pq] /\ Adjacent(ij, pq)

\* C4: the enlarged aperture is the mask grown by one pixel: a pixel is in it
\* if and only if it is in the mask or is horizontally or vertically adjacent
\* to a pixel of the mask.
C4_GrownByOnePixel ==
    pc = "enlarged" =>
        \A ij \in DOMAIN pipeline_mask.X :
            bigger_aper.X[ij] <=> (pipeline_mask.X[ij] \/ NextToMask(ij))

\* C10: the enlarged aperture contains every pixel of the mask, and every
\* pixel it adds is horizontally or vertically adjacent to a pixel of the
\* mask, also at the edges of the array.
C10_NeverShrinksNorOvergrows ==
    pc = "enlarged" =>
        /\ DOMAIN bigger_aper.X = DOMAIN pipeline_mask.X
        /\ \A ij \in DOMAIN pipeline_mask.X :
             /\ pipeline_mask.X[ij] => bigger_aper.X[ij]
             /\ (bigger_aper.X[ij] /\ ~pipeline_mask.X[ij]) => NextToMask(ij)

C10_Witness ==
    /\ pc = "enlarged"
    /\ pipeline_mask.shape = <<3, 3>>
    /\ \A ij \in DOMAIN pipeline_mask.X : pipeline_mask.X[ij] <=> (ij = <<1, 2>>)
    /\ bigger_aper.X[<<1, 1>>] /\ bigger_aper.X[<<1, 3>>] /\ bigger_aper.X[<<2, 2>>]
    /\ ~bigger_aper.X[<<3, 2>>] /\ ~bigger_aper.X[<<2, 1>>]

(***************************************************************************)
(* Removing the empty columns of the spline matrix (SpecSpline).  The      *)
(* entries of a B-spline basis matrix are never negative.                  *)
(***************************************************************************)
SplineVals == {0, 1}

ColSum(dm, c) == SumSeq([r \in 1..dm.shape[1] |-> dm.X[<<r, c>>]])

KeepColumn_first_row(dm, c) == dm.X[<<1, c>>] # 0

\* star_dm.X.sum(axis=0) != 0
KeepColumn(dm, c) == ColSum(dm, c) # 0

\* lk.DesignMatrix(star_dm.X[:, mask], name='spline'): the columns at which the
\* mask is true, in their order; default priors.
PruneEmpty(dm) ==
    LET keep == where([c \in 1..dm.shape[2] |-> KeepColumn(dm, c)])
        m == Len(keep)
    IN  DesignMatrix(dm.shape[1], m,
                     [ij \in (1..dm.shape[1]) \X (1..m) |->
                         dm.X[<<ij[1], keep[ij[2]] + 1>>]],
                     "spline", [j \in 1..m |-> 0], [j \in 1..m |-> "inf"])

PruneColumns ==
    /\ pc = "spline"
    /\ star_dm' = PruneEmpty(spline_dm)
    /\ pc' = "pruned"
    /\ UNCHANGED <<spline_dm, pipelineVars, aperVars, errVars>>

SplineMatrices(n, m) ==
    {DesignMatrix(n, m, x, "spline", [j \in 1..m |-> 0], [j \in 1..m |-> "inf"]) :
        x \in [(1..n) \X (1..m) -> SplineVals]}

InitSpline ==
    /\ pc = "spline"
    /\ \E n \in 1..MaxSplineRows : \E m \in 1..MaxSplineCols :
         spline_dm \in SplineMatrices(n, m)
    /\ star_dm = None
    /\ NoPipeline /\ NoAper /\ NoErr

NextSpline == PruneColumns

SpecSpline == InitSpline /\ [][NextSpline]_vars

NonEmptyCols == {c \in 1..spline_dm.shape[2] :
                    \E r \in 1..spline_dm.shape[1] : spline_dm.X[<<r, c>>] # 0}

\* The j-th smallest element of a set of numbers.
Nth(S, j) == CHOOSE c \in S : Cardinality({d \in S : d <= c}) = j

NaN == [k |-> "nan", v |-> 0]
PInf == [k |-> "+inf", v |-> 0]
NInf == [k |-> "-inf", v |-> 0]
Fin(v) == [k |-> "fin", v |-> v]

ErrVals == {NaN, PInf, NInf, Fin(2), Fin(4)}

\* np.isfinite
isfinite(x) == x.k = "fin"

isnan(x) == x.k = "nan"

\* x <= y on floats that are not NaN
LeqFloat(x, y) ==
    \/ x.k = "-inf"
    \/ y.k = "+inf"
    \/ x.k = "fin" /\ y.k = "fin" /\ x.v <= y.v

\* (x + y) / 2 on floats that are not NaN
MeanFloat(x, y) ==
    IF isfinite(x) /\ isfinite(y) THEN Fin((x.v + y.v) \div 2)
    ELSE IF {x.k, y.k} = {"+inf", "-inf"} THEN NaN
    ELSE IF "+inf" \in {x.k, y.k} THEN PInf
    ELSE NInf

RECURSIVE InsertSorted(_, _)
InsertSorted(x, s) ==
    IF s = <<>> THEN <<x>>
    ELSE IF LeqFloat(x, Head(s)) THEN <<x>> \o s
    ELSE <<Head(s)>> \o InsertSorted(x, Tail(s))

RECURSIVE SortFloats(_)
SortFloats(s) == IF s = <<>> THEN <<>> ELSE InsertSorted(Head(s), SortFloats(Tail(s)))

\* np.nanmedian: the median of the values that are not NaN (the infinities
\* stay in), NaN when there is none
nanmedian(a) ==
    LET b == SortFloats(SelectSeq(a, LAMBDA x : ~isnan(x)))
        n == Len(b)
    IN  IF n = 0 THEN NaN
        ELSE IF n % 2 = 1 THEN b[(n + 1) \div 2]
        ELSE MeanFloat(b[n \div 2], b[(n \div 2) + 1])

\* lc.flux_err[~np.isfinite(lc.flux_err)] = np.nanmedian(lc.flux_err)
FixFluxErr ==
    /\ pc = "fit"
    /\ flux_err' = [i \in 1..Len(flux_err) |->
                       IF ~isfinite(flux_err[i]) THEN nanmedian(flux_err) ELSE flux_err[i]]
    /\ pc' = "fixed"
    /\ UNCHANGED <<flux_err_in, pipelineVars, aperVars, splineVars>>

InitErr ==
    /\ pc = "fit"
    /\ flux_err_in \in UNION {[1..n -> ErrVals] : n \in 1..MaxErrs}
    /\ flux_err = flux_err_in
    /\ NoPipeline /\ NoAper /\ NoSpline

NextErr == FixFluxErr

SpecErr == InitErr /\ [][NextErr]_vars

\* C7: for every array with at least one finite value, the fix leaves the
\* finite values as they are, puts the median in place of every non-finite
\* value (NaN, +inf, -inf), and leaves no non-finite value behind.
C7_NoNonFiniteLeft ==
    (pc = "fixed" /\ \E i \in 1..Len(flux_err_in) : isfinite(flux_err_in[i])) =>
        /\ Len(flux_err) = Len(flux_err_in)
        /\ \A i \in 1..Len(flux_err_in) :
             /\ isfinite(flux_err_in[i]) => flux_err[i] = flux_err_in[i]
             /\ ~isfinite(flux_err_in[i]) => flux_err[i] = nanmedian(flux_err_in)
        /\ \A i \in 1..Len(flux_err) : isfinite(flux_err[i])

====
